---------------------------- MODULE Spec2Model ----------------------------
(***************************************************************************)
(* Model of the golem test-support harness:                                *)
(*   scripts/node_integration_tests/helpers.py  (output relay, graceful    *)
(*                                               shutdown)                 *)
(*   tests/golem/envs/localhost.py              (LocalhostAppHandler,      *)
(*                                               LocalhostRuntime)         *)
(* Each component has its own specification (SpecRelay, SpecHandler,       *)
(* SpecRuntime, SpecShutdown) over the shared set of variables; the        *)
(* variables of the other components keep their initial values.            *)
(***************************************************************************)
EXTENDS Integers, Sequences, FiniteSets, TLC

VARIABLES
    \* ---- output relay (helpers.py 45-85)
    stream,       \* the lines the process writes to its stdout, in order
    readIdx,      \* number of lines the reader thread has read so far
    readerPc,     \* "reading" | "done"  (position of output_queue)
    queue,        \* the queue.Queue: sequence of items [n, bytes]
    cur,          \* the consumer call in progress (print/clear/search): its
                  \* argument, the queue and the length of the sink when it
                  \* began, the items it took, and the call before it
    lastCall,     \* summary of the consumer call completed last
    pushedSince,  \* a q.put happened since the last consumer call completed
    emitted,      \* everything written to sys.stdout, in order
    poppedAll,    \* every item any consumer call took off the queue
    \* ---- Task-API handler stub (localhost.py 43-129)
    heap,         \* the mutable objects: L the subtasks list, C the
                  \* compute_results dict, V the verify_results dict
    prereq,       \* the LocalhostPrerequisites: references into heap
    handler,      \* the LocalhostAppHandler's fields: references into heap
    hLast,        \* the handler verb served last and what it gave
    handed,       \* the subtasks next_subtask has returned, in order
    orig,         \* the values of the prerequisites at construction
    payload,      \* the LocalhostPayload the Runtime was constructed from
    payload0,     \* the value of the payload at construction
    \* ---- LocalhostRuntime (localhost.py 132-185)
    status,       \* the lifecycle state RuntimeBase keeps
    fault,        \* the fault _error_occurred recorded, "None" when none
    server,       \* self._server
    server_loop,  \* self._server_loop: 0 for None, or the loop thread t made
    server_thread, \* self._server_thread: 0 for None, or the thread t
    threads,      \* the worker threads created so far: pc of _spawn_server
    stopRequested, \* the loops whose server has been asked to stop
    callerPc,     \* "idle" | "start_launched": the caller's position
    calls,        \* the lifecycle calls the caller has made, in order
    lastStart,    \* what the caller saw when start() returned last
    lastStop,     \* what the last stop() call did
    workerLog,    \* per worker thread: the event loops it made, how its
                  \* entry point ended, the lifecycle signals it gave and
                  \* whether an exception left _spawn_server
    \* ---- gracefully_shutdown (helpers.py 17-31)
    proc,         \* the subprocess: alive or exited with a return code
    gsPc,         \* position in gracefully_shutdown
    waited,       \* time units spent so far in process.wait(60)
    events        \* what gracefully_shutdown has done, in order

relayVars == <<stream, readIdx, readerPc, queue, cur, lastCall, pushedSince,
               emitted, poppedAll>>

handlerVars == <<heap, prereq, handler, hLast, handed, orig, payload, payload0>>

runtimeVars == <<status, fault, server, server_loop, server_thread, threads,
                 stopRequested, callerPc, calls, lastStart, lastStop, workerLog>>

shutdownVars == <<proc, gsPc, waited, events>>

vars == <<relayVars, handlerVars, runtimeVars, shutdownVars>>

nonRelayVars == <<handlerVars, runtimeVars, shutdownVars>>
nonHandlerVars == <<relayVars, runtimeVars, shutdownVars>>
nonRuntimeVars == <<relayVars, handlerVars, shutdownVars>>
nonShutdownVars == <<relayVars, handlerVars, runtimeVars>>

---------------------------------------------------------------------------
(* Bounds *)

\* longest stream of output lines considered
MaxLines == 3

\* longest subtask sequence of the prerequisites considered
MaxSubtasks == 2

\* number of lifecycle calls the caller makes on one Runtime
MaxCalls == 4

---------------------------------------------------------------------------
(* Output relay: helpers.py get_output_queue, print_output, clear_output,  *)
(* search_output                                                           *)

\* Output lines as byte strings.  readline returns a line with its newline;
\* an empty byte string only ever means end-of-stream.
LineA == <<97, 10>>          \* b'a\n'
LineE == <<195, 169, 10>>    \* b'\xc3\xa9\n'  (U+00E9 in UTF-8)
LineX == <<255, 10>>         \* b'\xff\n'      (not valid UTF-8)

Lines == {LineA, LineE, LineX}

\* the display prefixes callers pass to print_output ("P", "R")
Prefixes == {<<80>>, <<82>>}

\* the patterns callers pass to search_output: literal text, which re.match
\* anchors at the start of the line ("a", U+00E9)
Patterns == {<<97>>, <<233>>}

RECURSIVE SeqsUpTo(_, _)
SeqsUpTo(S, n) ==
    IF n = 0 THEN {<<>>}
    ELSE LET shorter == SeqsUpTo(S, n - 1)
         IN  shorter \cup {Append(s, x) : s \in {t \in shorter : Len(t) = n - 1}, x \in S}

\* bytes.decode('utf-8') on the one- and two-byte forms (no byte of Lines
\* starts a longer form): Utf8Valid is "decode does not raise
\* UnicodeDecodeError", Utf8Decode the resulting code points.
RECURSIVE Utf8Valid(_)
Utf8Valid(b) ==
    IF b = <<>> THEN TRUE
    ELSE IF b[1] < 128 THEN Utf8Valid(Tail(b))
    ELSE IF b[1] >= 194 /\ b[1] <= 223 /\ Len(b) >= 2
            /\ b[2] >= 128 /\ b[2] <= 191
         THEN Utf8Valid(Tail(Tail(b)))
    ELSE FALSE

RECURSIVE Utf8Decode(_)
Utf8Decode(b) ==
    IF b = <<>> THEN <<>>
    ELSE IF b[1] < 128 THEN <<b[1]>> \o Utf8Decode(Tail(b))
    ELSE <<(b[1] - 192) * 64 + (b[2] - 128)>> \o Utf8Decode(Tail(Tail(b)))

\* re.match(pattern, text) for a literal pattern: a match object iff the
\* text starts with the pattern.
ReMatch(pattern, text) ==
    /\ Len(pattern) <= Len(text)
    /\ SubSeq(text, 1, Len(pattern)) = pattern

NoResult == [kind |-> "none", string |-> <<>>, end |-> 0]
Idle == [op |-> "idle", arg |-> <<>>, atCall |-> <<>>, popped |-> <<>>,
         sinkAtCall |-> 0, prevOp |-> "none", prevPopped |-> 0]
NoCall == [op |-> "none", arg |-> <<>>, atCall |-> <<>>, popped |-> <<>>,
           sinkAtCall |-> 0, result |-> NoResult, quiet |-> FALSE,
           prevOp |-> "none", prevPopped |-> 0]

InitRelayVars ==
    /\ stream \in SeqsUpTo(Lines, MaxLines)
    /\ readIdx = 0
    /\ readerPc = "reading"
    /\ queue = <<>>
    /\ cur = Idle
    /\ lastCall = NoCall
    /\ pushedSince = FALSE
    /\ emitted = <<>>
    /\ poppedAll = <<>>

\* the reader loop with a q.put(b'') added after the loop: an end marker
\* follows the lines
output_queue_with_sentinel ==
    /\ readerPc = "reading"
    /\ IF readIdx < Len(stream)
       THEN /\ queue' = Append(queue, [n |-> readIdx + 1, bytes |-> stream[readIdx + 1]])
            /\ readIdx' = readIdx + 1
            /\ pushedSince' = TRUE
            /\ UNCHANGED readerPc
       ELSE /\ readerPc' = "done"
            /\ queue' = Append(queue, [n |-> readIdx + 1, bytes |-> <<>>])
            /\ pushedSince' = TRUE
            /\ UNCHANGED readIdx
    /\ UNCHANGED <<stream, cur, lastCall, emitted, poppedAll, nonRelayVars>>

\* helpers.py 46-48: one turn of `for line in iter(stream.readline, b'')`:
\* q.put(line) for the next line, or leave the loop at end-of-stream.
\* q.put on the unbounded Queue never waits.
output_queue ==
    /\ readerPc = "reading"
    /\ IF readIdx < Len(stream)
       THEN /\ queue' = Append(queue, [n |-> readIdx + 1, bytes |-> stream[readIdx + 1]])
            /\ readIdx' = readIdx + 1
            /\ pushedSince' = TRUE
            /\ UNCHANGED readerPc
       ELSE /\ readerPc' = "done"
            /\ UNCHANGED <<queue, readIdx, pushedSince>>
    /\ UNCHANGED <<stream, cur, lastCall, emitted, poppedAll, nonRelayVars>>

\* a consumer call begins: print_output(q, prefix), clear_output(q) or
\* search_output(q, pattern).  The summary of the call before it is kept
\* only as the operation it was and the number of lines it took.
Call(op, arg) ==
    /\ cur.op = "idle"
    /\ cur' = [op |-> op, arg |-> arg, atCall |-> queue, popped |-> <<>>,
               sinkAtCall |-> Len(emitted),
               prevOp |-> lastCall.op, prevPopped |-> Len(lastCall.popped)]
    /\ lastCall' = NoCall
    /\ UNCHANGED <<stream, readIdx, readerPc, queue, pushedSince, emitted, poppedAll, nonRelayVars>>

\* the consumer call returns (or raises): its summary becomes lastCall
Finish(c, result) ==
    /\ lastCall' = [op |-> c.op, arg |-> c.arg, atCall |-> c.atCall,
                    popped |-> c.popped, sinkAtCall |-> c.sinkAtCall,
                    result |-> result, quiet |-> ~pushedSince,
                    prevOp |-> c.prevOp, prevPopped |-> c.prevPopped]
    /\ cur' = Idle
    /\ pushedSince' = FALSE

\* q.get_nowait() took the head item
Took(c) == [c EXCEPT !.popped = Append(c.popped, Head(queue))]

call_print_output == \E p \in Prefixes : Call("print", p)

\* helpers.py 58-64: one turn of `for line in iter(q.get_nowait, None)`.
\* queue.Empty ends the call; a line that is not UTF-8 makes decode raise
\* UnicodeDecodeError, which nothing here catches.
print_output ==
    /\ cur.op = "print"
    /\ IF queue = <<>>
       THEN /\ Finish(cur, [kind |-> "returned", string |-> <<>>, end |-> 0])
            /\ UNCHANGED <<queue, emitted, poppedAll>>
       ELSE /\ queue' = Tail(queue)
            /\ poppedAll' = Append(poppedAll, Head(queue))
            /\ IF Utf8Valid(Head(queue).bytes)
               THEN /\ emitted' = Append(emitted, cur.arg \o Utf8Decode(Head(queue).bytes))
                    /\ cur' = Took(cur)
                    /\ UNCHANGED <<lastCall, pushedSince>>
               ELSE /\ Finish(Took(cur), [kind |-> "UnicodeDecodeError",
                                          string |-> <<>>, end |-> 0])
                    /\ UNCHANGED emitted
    /\ UNCHANGED <<stream, readIdx, readerPc, nonRelayVars>>

call_clear_output == Call("clear", <<>>)

\* clear_output with `if` for `while True`: it takes one line and returns
clear_output_once ==
    /\ cur.op = "clear"
    /\ IF queue = <<>>
       THEN /\ Finish(cur, [kind |-> "returned", string |-> <<>>, end |-> 0])
            /\ UNCHANGED <<queue, poppedAll>>
       ELSE /\ queue' = Tail(queue)
            /\ poppedAll' = Append(poppedAll, Head(queue))
            /\ Finish(Took(cur), [kind |-> "returned", string |-> <<>>, end |-> 0])
    /\ UNCHANGED <<stream, readIdx, readerPc, emitted, nonRelayVars>>

\* helpers.py 68-72: one turn of `while True: q.get_nowait()`
clear_output ==
    /\ cur.op = "clear"
    /\ IF queue = <<>>
       THEN /\ Finish(cur, [kind |-> "returned", string |-> <<>>, end |-> 0])
            /\ UNCHANGED <<queue, poppedAll>>
       ELSE /\ queue' = Tail(queue)
            /\ poppedAll' = Append(poppedAll, Head(queue))
            /\ cur' = Took(cur)
            /\ UNCHANGED <<lastCall, pushedSince>>
    /\ UNCHANGED <<stream, readIdx, readerPc, emitted, nonRelayVars>>

call_search_output == \E p \in Patterns : Call("search", p)

\* helpers.py 76-85: one turn of `for line in iter(q.get_nowait, None)`:
\* an empty line is skipped, a line is decoded and matched, the first match
\* is returned; queue.Empty ends the call with None.
search_output ==
    /\ cur.op = "search"
    /\ IF queue = <<>>
       THEN /\ Finish(cur, NoResult)
            /\ UNCHANGED <<queue, poppedAll>>
       ELSE /\ queue' = Tail(queue)
            /\ poppedAll' = Append(poppedAll, Head(queue))
            /\ IF Head(queue).bytes = <<>>
               THEN /\ cur' = Took(cur)
                    /\ UNCHANGED <<lastCall, pushedSince>>
               ELSE IF ~Utf8Valid(Head(queue).bytes)
               THEN Finish(Took(cur), [kind |-> "UnicodeDecodeError",
                                       string |-> <<>>, end |-> 0])
               ELSE IF ReMatch(cur.arg, Utf8Decode(Head(queue).bytes))
               THEN Finish(Took(cur), [kind |-> "match",
                                       string |-> Utf8Decode(Head(queue).bytes),
                                       end |-> Len(cur.arg)])
               ELSE /\ cur' = Took(cur)
                    /\ UNCHANGED <<lastCall, pushedSince>>
    /\ UNCHANGED <<stream, readIdx, readerPc, emitted, nonRelayVars>>

NextRelay ==
    \/ output_queue
    \/ call_print_output
    \/ print_output
    \/ call_clear_output
    \/ clear_output
    \/ call_search_output
    \/ search_output

\* the reader thread with a consumer that only drains
NextDrain ==
    \/ output_queue
    \/ call_print_output
    \/ print_output

RelayUnused ==
    /\ stream = <<>>
    /\ readIdx = 0
    /\ readerPc = "done"
    /\ queue = <<>>
    /\ cur = Idle
    /\ lastCall = NoCall
    /\ pushedSince = FALSE
    /\ emitted = <<>>
    /\ poppedAll = <<>>

---------------------------------------------------------------------------
(* Task-API handler stub: localhost.py LocalhostPrerequisites,             *)
(* LocalhostAppHandler                                                     *)

\* Subtask descriptors, subtask ids, canned results
Subtasks == {"A", "B"}
SubtaskIds == {"s1", "s2"}
ComputeValues == {"r1", "r2"}
VerifyValues == {<<TRUE, "None">>, <<FALSE, "bad result">>}
BenchmarkValues == {0, 7}
Commands == {"requestor", "provider"}
SharedDirs == {"/shared"}

\* the dicts with keys among K and values among V
Dicts(K, V) == UNION {[D -> V] : D \in SUBSET K}

\* localhost.py 43-63: the value of a payload, its prerequisites and their
\* list and dicts read through the references
PayloadValue ==
    [command |-> payload.command,
     shared_dir |-> payload.shared_dir,
     prerequisites |-> [compute_results |-> heap[prereq.compute_results],
                        benchmark_result |-> prereq.benchmark_result,
                        subtasks |-> heap[prereq.subtasks],
                        verify_results |-> heap[prereq.verify_results]]]

NoVerb == [verb |-> "none", arg |-> "None", outcome |-> "none", value |-> "None",
           pre |-> 0, before |-> [L |-> <<>>, C |-> <<>>, V |-> <<>>]]

\* localhost.py 43-49 and 86-90: the prerequisites hold the list and the
\* two dicts; LocalhostAppHandler.__init__ stores the same objects, it
\* copies none of them.
InitHandlerVars ==
    /\ \E st \in SeqsUpTo(Subtasks, MaxSubtasks),
          cr \in Dicts(SubtaskIds, ComputeValues),
          vr \in Dicts(SubtaskIds, VerifyValues),
          br \in BenchmarkValues :
          /\ heap = [L |-> st, C |-> cr, V |-> vr]
          /\ prereq = [compute_results |-> "C", benchmark_result |-> br,
                       subtasks |-> "L", verify_results |-> "V"]
          /\ orig = [compute_results |-> cr, benchmark_result |-> br,
                     subtasks |-> st, verify_results |-> vr]
    /\ \E c \in Commands, d \in SharedDirs :
          payload = [command |-> c, shared_dir |-> d, prerequisites |-> "prereq"]
    /\ payload0 = PayloadValue
    /\ handler = [_compute_results |-> prereq.compute_results,
                  _benchmark_result |-> prereq.benchmark_result,
                  _subtasks |-> prereq.subtasks,
                  _verify_results |-> prereq.verify_results]
    /\ hLast = NoVerb
    /\ handed = <<>>

HandlerUnused ==
    /\ heap = [L |-> <<>>, C |-> <<>>, V |-> <<>>]
    /\ prereq = [compute_results |-> "C", benchmark_result |-> 0,
                 subtasks |-> "L", verify_results |-> "V"]
    /\ orig = [compute_results |-> <<>>, benchmark_result |-> 0,
               subtasks |-> <<>>, verify_results |-> <<>>]
    /\ payload = [command |-> "requestor", shared_dir |-> "/shared",
                  prerequisites |-> "prereq"]
    /\ payload0 = PayloadValue
    /\ handler = [_compute_results |-> "C", _benchmark_result |-> 0,
                  _subtasks |-> "L", _verify_results |-> "V"]
    /\ hLast = NoVerb
    /\ handed = <<>>

\* a verb was served: what it was called with and what it gave
Served(verb, arg, outcome, value) ==
    hLast' = [verb |-> verb, arg |-> arg, outcome |-> outcome, value |-> value,
              pre |-> Len(handed), before |-> heap]

\* localhost.py 92-98
create_task ==
    /\ Served("create_task", "None", "return", "None")
    /\ UNCHANGED <<heap, prereq, handler, handed, orig, payload, payload0,
                   nonHandlerVars>>

\* next_subtask with list.pop() for list.pop(0): it hands out the last element
next_subtask_from_the_end ==
    /\ IF heap[handler._subtasks] = <<>>
       THEN /\ Served("next_subtask", "None", "IndexError", "None")
            /\ UNCHANGED <<heap, handed>>
       ELSE LET l == heap[handler._subtasks]
            IN  /\ Served("next_subtask", "None", "return", l[Len(l)])
                /\ heap' = [heap EXCEPT ![handler._subtasks] = SubSeq(l, 1, Len(l) - 1)]
                /\ handed' = Append(handed, l[Len(l)])
    /\ UNCHANGED <<prereq, handler, orig, payload, payload0,
                   nonHandlerVars>>

\* localhost.py 100-101: self._subtasks.pop(0); IndexError on an empty list
next_subtask ==
    /\ IF heap[handler._subtasks] = <<>>
       THEN /\ Served("next_subtask", "None", "IndexError", "None")
            /\ UNCHANGED <<heap, handed>>
       ELSE /\ Served("next_subtask", "None", "return", Head(heap[handler._subtasks]))
            /\ heap' = [heap EXCEPT ![handler._subtasks] = Tail(@)]
            /\ handed' = Append(handed, Head(heap[handler._subtasks]))
    /\ UNCHANGED <<prereq, handler, orig, payload, payload0,
                   nonHandlerVars>>

\* d.get(key) for d[key]: an absent key gives None
LookupWithDefault(verb, d, key) ==
    IF key \in DOMAIN d
    THEN Served(verb, key, "return", d[key])
    ELSE Served(verb, key, "return", "None")

\* d[key]: the value, or KeyError
Lookup(verb, d, key) ==
    IF key \in DOMAIN d
    THEN Served(verb, key, "return", d[key])
    ELSE Served(verb, key, "KeyError", "None")

\* localhost.py 103-108
verify ==
    /\ \E subtask_id \in SubtaskIds :
          Lookup("verify", heap[handler._verify_results], subtask_id)
    /\ UNCHANGED <<heap, prereq, handler, handed, orig, payload, payload0,
                   nonHandlerVars>>

\* discard_subtasks that drops the pending subtasks and answers with the
\* ids it was given
discard_subtasks_for_real ==
    /\ \E subtask_ids \in SeqsUpTo(SubtaskIds, 2) :
          Served("discard_subtasks", subtask_ids, "return", subtask_ids)
    /\ heap' = [heap EXCEPT ![handler._subtasks] = <<>>]
    /\ UNCHANGED <<prereq, handler, handed, orig, payload, payload0,
                   nonHandlerVars>>

\* localhost.py 110-115: the list of ids is ignored, the answer is []
discard_subtasks ==
    /\ \E subtask_ids \in SeqsUpTo(SubtaskIds, 2) :
          Served("discard_subtasks", subtask_ids, "return", <<>>)
    /\ UNCHANGED <<heap, prereq, handler, handed, orig, payload, payload0,
                   nonHandlerVars>>

\* localhost.py 117-118
run_benchmark ==
    /\ Served("run_benchmark", "None", "return", handler._benchmark_result)
    /\ UNCHANGED <<heap, prereq, handler, handed, orig, payload, payload0,
                   nonHandlerVars>>

\* localhost.py 120-121: bool(self._subtasks)
has_pending_subtasks ==
    /\ Served("has_pending_subtasks", "None", "return", heap[handler._subtasks] # <<>>)
    /\ UNCHANGED <<heap, prereq, handler, handed, orig, payload, payload0,
                   nonHandlerVars>>

\* localhost.py 123-129
compute ==
    /\ \E subtask_id \in SubtaskIds :
          Lookup("compute", heap[handler._compute_results], subtask_id)
    /\ UNCHANGED <<heap, prereq, handler, handed, orig, payload, payload0,
                   nonHandlerVars>>

NextHandler ==
    \/ create_task
    \/ next_subtask
    \/ verify
    \/ discard_subtasks
    \/ run_benchmark
    \/ has_pending_subtasks
    \/ compute

---------------------------------------------------------------------------
(* LocalhostRuntime: localhost.py 132-185.  The caller makes its lifecycle *)
(* calls one at a time, in any order; each start() creates a worker thread *)
(* that runs _spawn_server concurrently with the caller.                   *)

NoStart == [returned |-> FALSE, status |-> "none", workerPc |-> "none"]
NoStop == [called |-> FALSE, outcome |-> "none", submitted |-> FALSE,
           executedOn |-> "none", joinStarted |-> FALSE, deferred |-> "none",
           statusBefore |-> "none", statusAfter |-> "none", startCalls |-> 0,
           workerPc |-> "none"]

\* localhost.py 134-145: LocalhostRuntime.__init__
InitRuntimeVars ==
    /\ status = "uninitialized"
    /\ fault = "None"
    /\ server = "None"
    /\ server_loop = 0
    /\ server_thread = 0
    /\ threads = <<>>
    /\ stopRequested = {}
    /\ callerPc = "idle"
    /\ calls = <<>>
    /\ lastStart = NoStart
    /\ lastStop = NoStop
    /\ workerLog = <<>>

RuntimeUnused == InitRuntimeVars

\* RuntimeBase's lifecycle signals, as section 3 of the specification gives
\* them: each sets the lifecycle state it names.
Signalled(s) == status' = s

CanCall == callerPc = "idle" /\ Len(calls) < MaxCalls

\* localhost.py 147-149
prepare ==
    /\ CanCall
    /\ calls' = Append(calls, "prepare")
    /\ Signalled("prepared")
    /\ UNCHANGED <<fault, server, server_loop, server_thread, threads,
                   stopRequested, callerPc, lastStart, lastStop, workerLog,
                   nonRuntimeVars>>

\* localhost.py 151-153
clean_up ==
    /\ CanCall
    /\ calls' = Append(calls, "clean_up")
    /\ Signalled("torn_down")
    /\ UNCHANGED <<fault, server, server_loop, server_thread, threads,
                   stopRequested, callerPc, lastStart, lastStop, workerLog,
                   nonRuntimeVars>>

\* localhost.py 155-157: the worker thread creates its event loop and
\* stores it in self._server_loop
spawn_server_begin(t) ==
    /\ threads[t] = "spawned"
    /\ threads' = [threads EXCEPT ![t] = "running"]
    /\ server_loop' = t
    /\ workerLog' = [workerLog EXCEPT ![t].loops = @ + 1]
    /\ UNCHANGED <<status, fault, server, server_thread, stopRequested,
                   callerPc, calls, lastStart, lastStop, nonRuntimeVars>>

\* How run_until_complete(entrypoint(...)) can end: the entry point raises
\* an exception (a fault of the protocol server) or it returns (the server
\* stopped, on a stop request of the Runtime or of a protocol client).
EntrypointOutcomes(t) == {"fault", "return"}

\* _spawn_server without its except clause: an exception of the entry
\* point leaves the thread and no signal is given
spawn_server_end_uncaught(t, outcome) ==
    /\ threads[t] = "running"
    /\ outcome \in EntrypointOutcomes(t)
    /\ threads' = [threads EXCEPT ![t] = "done"]
    /\ IF outcome = "fault"
       THEN /\ UNCHANGED <<status, fault>>
            /\ workerLog' = [workerLog EXCEPT ![t].outcome = outcome,
                                              ![t].escaped = TRUE]
       ELSE /\ Signalled("stopped")
            /\ UNCHANGED fault
            /\ workerLog' = [workerLog EXCEPT ![t].outcome = outcome,
                                              ![t].signals = Append(@, "stopped"),
                                              ![t].left = status']
    /\ UNCHANGED <<server, server_loop, server_thread, stopRequested,
                   callerPc, calls, lastStart, lastStop, nonRuntimeVars>>

\* localhost.py 158-168: the entry point raises and _error_occurred
\* records the fault, or it returns and _stopped is signalled
spawn_server_end(t, outcome) ==
    /\ threads[t] = "running"
    /\ outcome \in EntrypointOutcomes(t)
    /\ threads' = [threads EXCEPT ![t] = "done"]
    /\ IF outcome = "fault"
       THEN /\ Signalled("failed")
            /\ fault' = "fault"
            /\ workerLog' = [workerLog EXCEPT ![t].outcome = outcome,
                                              ![t].signals = Append(@, "failed"),
                                              ![t].left = status']
       ELSE /\ Signalled("stopped")
            /\ UNCHANGED fault
            /\ workerLog' = [workerLog EXCEPT ![t].outcome = outcome,
                                              ![t].signals = Append(@, "stopped"),
                                              ![t].left = status']
    /\ UNCHANGED <<server, server_loop, server_thread, stopRequested,
                   callerPc, calls, lastStart, lastStop, nonRuntimeVars>>

\* a worker thread that has not run yet
NewWorker == [loops |-> 0, outcome |-> "none", signals |-> <<>>, left |-> "none",
              escaped |-> FALSE]

\* localhost.py 171-172: the thread is created and started
start_launch ==
    /\ CanCall
    /\ calls' = Append(calls, "start")
    /\ threads' = Append(threads, "spawned")
    /\ server_thread' = Len(threads) + 1
    /\ callerPc' = "start_launched"
    /\ workerLog' = Append(workerLog, NewWorker)
    /\ UNCHANGED <<status, fault, server, server_loop, stopRequested,
                   lastStart, lastStop, nonRuntimeVars>>

\* start() that returns only once the worker thread has made its loop
start_return_when_loop_made ==
    /\ callerPc = "start_launched"
    /\ threads[server_thread] # "spawned"
    /\ Signalled("started")
    /\ callerPc' = "idle"
    /\ lastStart' = [returned |-> TRUE, status |-> status',
                     workerPc |-> threads[server_thread]]
    /\ UNCHANGED <<fault, server, server_loop, server_thread, threads,
                   stopRequested, calls, lastStop, workerLog, nonRuntimeVars>>

\* localhost.py 173-174: _started() is signalled and start() returns
start_return ==
    /\ callerPc = "start_launched"
    /\ Signalled("started")
    /\ callerPc' = "idle"
    /\ lastStart' = [returned |-> TRUE, status |-> status',
                     workerPc |-> threads[server_thread]]
    /\ UNCHANGED <<fault, server, server_loop, server_thread, threads,
                   stopRequested, calls, lastStop, workerLog, nonRuntimeVars>>

\* stop() with its three assert statements left out: the call on the
\* missing loop raises AttributeError inside the try block
StopOutcomeUnchecked ==
    IF server = "None" \/ server_loop = 0
    THEN [outcome |-> "returned", submitted |-> FALSE, executedOn |-> "none",
          joinStarted |-> FALSE, deferred |-> "failed"]
    ELSE IF threads[server_loop] = "running"
    THEN [outcome |-> "returned", submitted |-> FALSE, executedOn |-> "none",
          joinStarted |-> FALSE, deferred |-> "failed"]
    ELSE [outcome |-> "returned", submitted |-> TRUE, executedOn |-> "caller",
          joinStarted |-> TRUE, deferred |-> "join"]

\* localhost.py 176-185: what one stop() call does.  The asserts raise
\* AssertionError; loop.run_until_complete raises RuntimeError on a loop
\* that is running (caught, defer.fail()); otherwise the stop coroutine is
\* run by the calling thread, which drives the loop itself, and the join is
\* handed to deferToThread.
StopOutcome ==
    IF server = "None" \/ server_loop = 0 \/ server_thread = 0
    THEN [outcome |-> "AssertionError", submitted |-> FALSE, executedOn |-> "none",
          joinStarted |-> FALSE, deferred |-> "none"]
    ELSE IF threads[server_loop] = "running"
    THEN [outcome |-> "returned", submitted |-> FALSE, executedOn |-> "none",
          joinStarted |-> FALSE, deferred |-> "failed"]
    ELSE [outcome |-> "returned", submitted |-> TRUE, executedOn |-> "caller",
          joinStarted |-> TRUE, deferred |-> "join"]

\* localhost.py 176-185
stop ==
    /\ CanCall
    /\ calls' = Append(calls, "stop")
    /\ UNCHANGED status
    /\ stopRequested' = IF StopOutcome.submitted
                        THEN stopRequested \cup {server_loop}
                        ELSE stopRequested
    /\ lastStop' = [called |-> TRUE, outcome |-> StopOutcome.outcome,
                    submitted |-> StopOutcome.submitted,
                    executedOn |-> StopOutcome.executedOn,
                    joinStarted |-> StopOutcome.joinStarted,
                    deferred |-> StopOutcome.deferred,
                    statusBefore |-> status, statusAfter |-> status',
                    startCalls |-> Len(threads),
                    workerPc |-> IF server_thread = 0 THEN "none"
                                 ELSE threads[server_thread]]
    /\ UNCHANGED <<fault, server, server_loop, server_thread, threads,
                   callerPc, lastStart, workerLog, nonRuntimeVars>>

\* the entry point returns because its server was asked to stop
entrypoint_returns ==
    \E t \in 1..Len(threads) : t \in stopRequested /\ spawn_server_end(t, "return")

NextRuntime ==
    \/ prepare
    \/ start_launch
    \/ start_return
    \/ stop
    \/ clean_up
    \/ \E t \in 1..Len(threads) : spawn_server_begin(t)
    \/ \E t \in 1..Len(threads), o \in {"fault", "return"} : spawn_server_end(t, o)

\* The scheduler runs a started thread, start() goes on to its return, and
\* a server that was asked to stop does stop.  Nothing makes a fault happen,
\* makes a server stop that was not asked to, or makes the caller call again.
FairRuntime ==
    /\ WF_vars(\E t \in 1..Len(threads) : spawn_server_begin(t))
    /\ WF_vars(start_return)
    /\ WF_vars(entrypoint_returns)

---------------------------------------------------------------------------
(* gracefully_shutdown: helpers.py 17-31                                   *)

\* the timeout of process.wait
GraceBound == 60

\* return codes of the subprocess: success, failure, killed by SIGTERM
ExitCodes == {0, 1, -15}

InitShutdownVars ==
    /\ proc = [alive |-> TRUE, returncode |-> 0]
    /\ gsPc = "not_called"
    /\ waited = 0
    /\ events = <<>>

ShutdownUnused == InitShutdownVars

\* the subprocess exits by itself, on the termination request or not at all
process_exits ==
    /\ proc.alive
    /\ \E code \in ExitCodes : proc' = [alive |-> FALSE, returncode |-> code]
    /\ UNCHANGED <<gsPc, waited, events, nonShutdownVars>>

\* helpers.py 23-25: process.terminate(), then the "Waiting ..." line
gs_terminate ==
    /\ gsPc = "not_called"
    /\ gsPc' = "waiting"
    /\ events' = events \o <<"terminate", "print_waiting", "wait">>
    /\ UNCHANGED <<proc, waited, nonShutdownVars>>

\* one time unit passes while process.wait(60) is blocked
wait_tick ==
    /\ gsPc = "waiting"
    /\ proc.alive
    /\ waited < GraceBound
    /\ waited' = waited + 1
    /\ UNCHANGED <<proc, gsPc, events, nonShutdownVars>>

\* report_termination with `if exit_code is not None` for `if exit_code`
report_termination_always(exit_code) == <<"report">>

\* helpers.py 17-19: the events report_termination adds
report_termination(exit_code) ==
    IF exit_code # 0 THEN <<"report">> ELSE <<>>

\* helpers.py 26-27: wait returns the exit code, which
\* report_termination prints when it is not zero, and the function returns
gs_wait_returns ==
    /\ gsPc = "waiting"
    /\ ~proc.alive
    /\ gsPc' = "done"
    /\ events' = events \o <<"wait_returned">> \o report_termination(proc.returncode)
                        \o <<"return">>
    /\ UNCHANGED <<proc, waited, nonShutdownVars>>

\* helpers.py 28-30: wait raises TimeoutExpired, the "timed-out" line
gs_wait_times_out ==
    /\ gsPc = "waiting"
    /\ proc.alive
    /\ waited = GraceBound
    /\ gsPc' = "timed_out"
    /\ events' = events \o <<"wait_timeout", "print_timeout">>
    /\ UNCHANGED <<proc, waited, nonShutdownVars>>

\* the except block without its process.kill()
gs_timeout_swallowed ==
    /\ gsPc = "timed_out"
    /\ gsPc' = "done"
    /\ events' = events \o <<"return">>
    /\ UNCHANGED <<proc, waited, nonShutdownVars>>

\* helpers.py 31: process.kill(), and the function returns
gs_kill ==
    /\ gsPc = "timed_out"
    /\ gsPc' = "done"
    /\ events' = events \o <<"kill", "return">>
    /\ UNCHANGED <<proc, waited, nonShutdownVars>>

NextShutdown ==
    \/ process_exits
    \/ gs_terminate
    \/ wait_tick
    \/ gs_wait_returns
    \/ gs_wait_times_out
    \/ gs_kill

---------------------------------------------------------------------------
(* Specifications *)

InitRelay == InitRelayVars /\ HandlerUnused /\ RuntimeUnused /\ ShutdownUnused

SpecRelay == InitRelay /\ [][NextRelay]_vars

SpecDrain == InitRelay /\ [][NextDrain]_vars

InitHandler == InitHandlerVars /\ RelayUnused /\ RuntimeUnused /\ ShutdownUnused

SpecHandler == InitHandler /\ [][NextHandler]_vars

InitRuntime == InitRuntimeVars /\ RelayUnused /\ HandlerUnused /\ ShutdownUnused

SpecRuntime == InitRuntime /\ [][NextRuntime]_vars

FairSpecRuntime == SpecRuntime /\ FairRuntime

InitShutdown == InitShutdownVars /\ RelayUnused /\ HandlerUnused /\ RuntimeUnused

SpecShutdown == InitShutdown /\ [][NextShutdown]_vars

---------------------------------------------------------------------------
(* Claims about the output relay *)

AllDecodable(s) == \A i \in 1..Len(s) : Utf8Valid(s[i])

\* the sink holds exactly the lines of s, each decoded and prefixed, in order
SinkIs(s) ==
    /\ Len(emitted) = Len(s)
    /\ \A i \in 1..Len(s) :
          /\ Utf8Valid(s[i])
          /\ \E p \in Prefixes : emitted[i] = p \o Utf8Decode(s[i])

Drained == readerPc = "done" /\ queue = <<>> /\ cur.op = "idle"

\* C1: with the reader thread and print_output calls interleaved in any
\* way, once the stream has closed, the queue is empty and no drain is in
\* progress, the drains have written exactly the lines of the stream, in
\* the order of the stream: none lost, none duplicated, none reordered.
C1_DrainYieldsEveryLineInOrder == Drained => SinkIs(stream)

\* C1 restricted to streams whose lines all decode as UTF-8
C1_DrainYieldsDecodableLinesInOrder ==
    (Drained /\ AllDecodable(stream)) => SinkIs(stream)

C1_DrainedDecodableStream ==
    /\ Drained /\ AllDecodable(stream) /\ Len(stream) = MaxLines
    /\ \E i \in 1..Len(stream) : stream[i] = LineE
    /\ \E i, j \in 1..Len(emitted) : emitted[i][1] # emitted[j][1]

\* the item matches the pattern: it decodes and re.match finds the pattern
Matches(item, pattern) ==
    /\ Utf8Valid(item.bytes)
    /\ ReMatch(pattern, Utf8Decode(item.bytes))

\* position of the first item of q that matches, 0 when none does
FirstMatch(q, pattern) ==
    IF \E i \in 1..Len(q) : Matches(q[i], pattern)
    THEN CHOOSE i \in 1..Len(q) :
            /\ Matches(q[i], pattern)
            /\ \A j \in 1..(i - 1) : ~Matches(q[j], pattern)
    ELSE 0

\* no item is taken off the queue twice, and no taken item is still queued
NeverSeenAgain ==
    /\ \A i, j \in 1..Len(poppedAll) : i # j => poppedAll[i].n # poppedAll[j].n
    /\ \A i \in 1..Len(poppedAll), j \in 1..Len(queue) : poppedAll[i].n # queue[j].n

SearchTookThroughFirstMatch(c, k) ==
    /\ c.result.kind = "match"
    /\ c.result.string = Utf8Decode(c.atCall[k].bytes)
    /\ c.popped = SubSeq(c.atCall, 1, k)
    /\ Len(queue) >= Len(c.atCall) - k
    /\ SubSeq(queue, 1, Len(c.atCall) - k) = SubSeq(c.atCall, k + 1, Len(c.atCall))

\* C2: a search_output call on a queue whose k-th line is the first that
\* matches returns a match on that line's text and takes exactly lines 1..k
\* off the queue; the lines behind k stay queued in order, and no line taken
\* off the queue is ever seen by a later call.
C2_SearchConsumesThroughFirstMatch ==
    /\ NeverSeenAgain
    /\ (lastCall.op = "search" /\ FirstMatch(lastCall.atCall, lastCall.arg) > 0)
        => SearchTookThroughFirstMatch(lastCall, FirstMatch(lastCall.atCall, lastCall.arg))

\* C2 restricted to queues whose lines before the match decode as UTF-8
C2_SearchConsumesThroughFirstDecodableMatch ==
    /\ NeverSeenAgain
    /\ (/\ lastCall.op = "search"
        /\ FirstMatch(lastCall.atCall, lastCall.arg) > 0
        /\ \A j \in 1..FirstMatch(lastCall.atCall, lastCall.arg) :
              Utf8Valid(lastCall.atCall[j].bytes))
        => SearchTookThroughFirstMatch(lastCall, FirstMatch(lastCall.atCall, lastCall.arg))

\* C3: clear_output writes nothing and returns with the queue empty; a
\* print_output call right after it, with no line pushed since the clear
\* returned, takes nothing off the queue and writes nothing.
C3_ClearThenDrainEmitsNothing ==
    /\ lastCall.op = "clear" =>
          /\ Len(emitted) = lastCall.sinkAtCall
          /\ (~pushedSince => queue = <<>>)
    /\ (lastCall.op = "print" /\ lastCall.prevOp = "clear" /\ lastCall.quiet) =>
          /\ Len(emitted) = lastCall.sinkAtCall
          /\ lastCall.popped = <<>>

C3_DrainAfterClearOfQueuedLines ==
    /\ lastCall.op = "print" /\ lastCall.prevOp = "clear" /\ lastCall.quiet
    /\ lastCall.prevPopped >= 2

\* every item the reader has put on the queue, in the order of the puts
Pushed == poppedAll \o queue

\* C19: the items the reader has pushed are the lines it has read, one item
\* per line in read order; while it is reading its next step never waits,
\* however long the queue is; when it has terminated it has read the whole
\* stream, so the items are exactly the lines and none is an end marker.
C19_ReaderPushesOneItemPerLine ==
    /\ Len(Pushed) = readIdx
    /\ \A i \in 1..Len(Pushed) : Pushed[i] = [n |-> i, bytes |-> stream[i]]
    /\ readerPc = "reading" => ENABLED output_queue
    /\ readerPc = "done" => readIdx = Len(stream)

C19_ReaderDoneWithLinesQueuedAndTaken ==
    /\ readerPc = "done"
    /\ Len(stream) = MaxLines
    /\ queue # <<>>
    /\ poppedAll # <<>>

---------------------------------------------------------------------------
(* Claims about the handler stub *)

\* C4: the i-th next_subtask call on a handler built from a sequence of
\* length n returns the i-th element of that sequence for i <= n and raises
\* IndexError after that, and has_pending_subtasks answers true exactly
\* when fewer than n next_subtask calls have succeeded.
C4_SubtasksHandedOutInOrder ==
    /\ Len(handed) <= Len(orig.subtasks)
    /\ handed = SubSeq(orig.subtasks, 1, Len(handed))
    /\ hLast.verb = "next_subtask" =>
          IF hLast.pre < Len(orig.subtasks)
          THEN /\ hLast.outcome = "return"
               /\ hLast.value = orig.subtasks[hLast.pre + 1]
               /\ Len(handed) = hLast.pre + 1
          ELSE /\ hLast.outcome = "IndexError"
               /\ Len(handed) = hLast.pre
    /\ hLast.verb = "has_pending_subtasks" =>
          /\ hLast.outcome = "return"
          /\ hLast.value = (Len(handed) < Len(orig.subtasks))

C4_ThirdCallOnTwoSubtasksFails ==
    /\ orig.subtasks = <<"A", "B">>
    /\ handed = <<"A", "B">>
    /\ hLast.verb = "next_subtask"
    /\ hLast.outcome = "IndexError"

\* C5: compute(id) and verify(id) return the entry of compute_results and
\* verify_results under id; when there is none they raise KeyError, return
\* nothing, and leave the handler and the objects it refers to as they were.
C5_LookupReturnsEntryOrKeyError ==
    /\ hLast.verb = "compute" =>
          /\ IF hLast.arg \in DOMAIN orig.compute_results
             THEN hLast.outcome = "return" /\ hLast.value = orig.compute_results[hLast.arg]
             ELSE hLast.outcome = "KeyError"
          /\ heap = hLast.before
    /\ hLast.verb = "verify" =>
          /\ IF hLast.arg \in DOMAIN orig.verify_results
             THEN hLast.outcome = "return" /\ hLast.value = orig.verify_results[hLast.arg]
             ELSE hLast.outcome = "KeyError"
          /\ heap = hLast.before
    /\ handler = [_compute_results |-> "C", _benchmark_result |-> orig.benchmark_result,
                  _subtasks |-> "L", _verify_results |-> "V"]

C5_ComputeOfAbsentIdFails ==
    /\ DOMAIN orig.compute_results = {"s1"}
    /\ orig.compute_results["s1"] = "r1"
    /\ hLast.verb = "compute"
    /\ hLast.arg = "s2"
    /\ hLast.outcome = "KeyError"

HandlerReadOnlyVerbs == {"create_task", "has_pending_subtasks", "compute",
                         "verify", "run_benchmark", "discard_subtasks"}

\* C17: the canned compute results, verify results and benchmark result
\* of the handler stay as constructed; a next_subtask that returns removes
\* exactly the first element of the subtask sequence, one that fails and
\* every other verb leave the sequence as it was; discard_subtasks answers
\* with an empty collection whatever ids it is given.
C17_OnlyNextSubtaskChangesTheHandler ==
    /\ heap[handler._compute_results] = orig.compute_results
    /\ heap[handler._verify_results] = orig.verify_results
    /\ handler._benchmark_result = orig.benchmark_result
    /\ hLast.verb \in HandlerReadOnlyVerbs =>
          heap[handler._subtasks] = hLast.before[handler._subtasks]
    /\ (hLast.verb = "next_subtask" /\ hLast.outcome = "return") =>
          /\ hLast.before[handler._subtasks] # <<>>
          /\ heap[handler._subtasks] = Tail(hLast.before[handler._subtasks])
    /\ (hLast.verb = "next_subtask" /\ hLast.outcome # "return") =>
          heap[handler._subtasks] = hLast.before[handler._subtasks]
    /\ hLast.verb = "discard_subtasks" =>
          hLast.outcome = "return" /\ hLast.value = <<>>

C17_DiscardWithSubtasksPending ==
    /\ hLast.verb = "discard_subtasks"
    /\ hLast.arg # <<>>
    /\ handed # <<>>
    /\ heap[handler._subtasks] # <<>>

\* C18: after any sequence of handler verbs the payload reads as it did at
\* construction: its command, its shared directory and its prerequisites,
\* the subtask sequence included.
C18_PayloadReadsAsConstructed == PayloadValue = payload0

---------------------------------------------------------------------------
(* Claims about LocalhostRuntime *)

EndToEnd == <<"prepare", "start", "stop">>

\* C6: after prepare() and start(), with the protocol server running
\* without a fault, a call to stop() leads to the lifecycle state stopped
\* with the worker thread terminated.
C6_StopLeadsToStopped ==
    (calls = EndToEnd /\ callerPc = "idle")
        ~> \/ status = "stopped" /\ threads[server_thread] = "done"
           \/ fault # "None"
           \/ calls # EndToEnd

C7_StartReturnedBeforeWorkerRan ==
    /\ lastStart.returned
    /\ lastStart.workerPc = "spawned"

\* C10: stop() on a Runtime on which start() was never called raises: it
\* submits no stop request, starts no join, returns no deferred and leaves
\* the lifecycle state as it was.
C10_StopBeforeStartRaises ==
    (lastStop.called /\ lastStop.startCalls = 0) =>
        /\ lastStop.outcome = "AssertionError"
        /\ ~lastStop.submitted
        /\ ~lastStop.joinStarted
        /\ lastStop.deferred = "none"
        /\ lastStop.statusAfter = lastStop.statusBefore
        /\ stopRequested = {}

C10_StopCalledBeforeStart ==
    /\ lastStop.called
    /\ lastStop.startCalls = 0
    /\ lastStop.statusBefore = "prepared"

\* C12: a stop() made on a started Runtime whose server is running has the
\* server's stop operation executed on the worker thread that owns the
\* loop; the calling thread never runs it.
C12_StopExecutedOnWorkerThread ==
    /\ lastStop.executedOn # "caller"
    /\ (/\ calls = EndToEnd
        /\ lastStop.statusBefore = "started"
        /\ lastStop.workerPc = "running") => lastStop.executedOn = "worker"

\* C14: a worker thread whose entry point raised left the Runtime failed
\* with the fault recorded, one whose entry point returned left it stopped;
\* each finished worker thread gave exactly that one signal, an unfinished
\* one none, and no exception left a worker thread.
C14_WorkerSignalsOnceAndCatches ==
    \A t \in 1..Len(threads) :
        /\ ~workerLog[t].escaped
        /\ threads[t] # "done" => workerLog[t].signals = <<>>
        /\ threads[t] = "done" =>
              \/ /\ workerLog[t].outcome = "fault"
                 /\ workerLog[t].signals = <<"failed">>
                 /\ workerLog[t].left = "failed"
                 /\ fault = "fault"
              \/ /\ workerLog[t].outcome = "return"
                 /\ workerLog[t].signals = <<"stopped">>
                 /\ workerLog[t].left = "stopped"

C14_OneWorkerFaultedOneReturned ==
    /\ Len(threads) = 2
    /\ threads[1] = "done" /\ workerLog[1].outcome = "fault"
    /\ threads[2] = "done" /\ workerLog[2].outcome = "return"

LifecycleOrder == <<"prepare", "start", "stop", "clean_up">>

\* C15: while the caller makes its lifecycle calls in their order, no
\* change of the lifecycle state leaves failed or torn_down: neither the
\* started signal of start() nor any other signal overwrites a failed
\* state that the worker thread has set.
C15_NothingLeavesFailedOrTornDown ==
    [][(/\ Len(calls') <= Len(LifecycleOrder)
        /\ calls' = SubSeq(LifecycleOrder, 1, Len(calls'))
        /\ status \in {"failed", "torn_down"}) => status' = status]_vars

\* C16: whatever lifecycle calls were made, at most one worker thread was
\* ever created, and it made at most one event loop.
C16_AtMostOneWorkerThread ==
    /\ Len(threads) <= 1
    /\ \A t \in 1..Len(threads) : workerLog[t].loops <= 1

\* C20: once start() has returned on a prepared Runtime, the event-loop
\* reference and the worker-thread reference are both set, so none of the
\* checks stop() makes of them fails.
C20_LoopAndThreadSetAfterStart ==
    (calls = <<"prepare", "start">> /\ lastStart.returned /\ callerPc = "idle") =>
        /\ server_loop # 0
        /\ server_thread # 0

---------------------------------------------------------------------------
(* Claims about gracefully_shutdown *)

TimedOut == \E i \in 1..Len(events) : events[i] = "wait_timeout"

\* C8: when process.wait(60) times out, gracefully_shutdown has asked for
\* termination first, waited the whole 60 units once, then called
\* process.kill() exactly once, and returned without raising.
C8_TimeoutEscalatesToOneKill ==
    (gsPc = "done" /\ TimedOut) =>
        /\ events = <<"terminate", "print_waiting", "wait", "wait_timeout",
                      "print_timeout", "kill", "return">>
        /\ waited = GraceBound

C8_ShutdownTimedOut == gsPc = "done" /\ TimedOut

\* C9: when the process exits within the wait, gracefully_shutdown calls no
\* kill and returns normally whatever the exit code; an exit code other than
\* zero only adds the report line.
C9_ExitInTimeNeverKills ==
    (gsPc = "done" /\ ~TimedOut) =>
        /\ ~proc.alive
        /\ waited <= GraceBound
        /\ events = <<"terminate", "print_waiting", "wait", "wait_returned">>
                    \o (IF proc.returncode # 0 THEN <<"report">> ELSE <<>>)
                    \o <<"return">>

C9_ExitedInTimeWithFailureCode ==
    /\ gsPc = "done" /\ ~TimedOut
    /\ proc.returncode = -15
    /\ waited > 0

===========================================================================
